---- MODULE Spec2Model ----
(***************************************************************************)
(* State-machine model of the PPanGGOLiN pangenome graph:                  *)
(*   - Pangenome / GeneFamily / Edge of ppanggolin/pangenome.py            *)
(*   - GeneFamily of ppanggolin/geneFamily.py                              *)
(* Python objects are modelled by handles into heaps (sequences of         *)
(* records); Python dicts whose iteration order is read by the code are    *)
(* sequences of [k, v] entries in insertion order, the others are          *)
(* functions.                                                              *)
(***************************************************************************)
EXTENDS Integers, Sequences, FiniteSets, TLC

VARIABLES
    orgGetter,    \* Pangenome._orgGetter : ordered dict name -> Organism
    orgAlloc,     \* number of Organism objects constructed by addOrganism(str)
    famGetter,    \* Pangenome._famGetter : ordered dict name -> family handle
    fams,         \* heap of pangenome.py GeneFamily objects (handle = position)
    max_fam_id,   \* Pangenome.max_fam_id
    geneFamily,   \* Gene.family of every gene (0 is None)
    edgeGetter,   \* Pangenome._edgeGetter : dict frozenset of families -> edge handle
    edgeObjs,     \* heap of Edge objects (handle = position)
    hasOrgIndex,  \* hasattr(pangenome, "_orgIndex")
    orgIndex,     \* Pangenome._orgIndex : ordered dict Organism -> int
    lastOp,       \* the operation of the last step and the exception it raised
    gfams,        \* the GeneFamily objects of geneFamily.py, by handle
    G_family,     \* Gene.family of the genes handed to them (0 is None)
    F_lastOp,     \* the GeneFamily operation of the last step and its exception
    contig,       \* the Contig the regions lie on: its genes' families, is_circular
    regions,      \* heap of Region objects (handle = position)
    panRegions,   \* Pangenome.regions : set of Region handles
    walk,         \* the frame of the running Region.getBorderingGenes call
    R_lastOp,     \* the Region operation of the last step and its exception
    writeCall     \* the last call of check_pangenome_to_write_sequences

vars == <<orgGetter, orgAlloc, famGetter, fams, max_fam_id, geneFamily,
          edgeGetter, edgeObjs, hasOrgIndex, orgIndex, lastOp,
          gfams, G_family, F_lastOp,
          contig, regions, panRegions, walk, R_lastOp,
          writeCall>>

\* the state of the Pangenome of pangenome.py and of what it owns
panVars == <<orgGetter, orgAlloc, famGetter, fams, max_fam_id, geneFamily,
             edgeGetter, edgeObjs, hasOrgIndex, orgIndex, lastOp>>

\* the state of the GeneFamily objects of geneFamily.py
famVars == <<gfams, G_family, F_lastOp>>

\* the state of the Region objects of pangenome.py and of Pangenome.regions
regVars == <<contig, regions, panRegions, walk, R_lastOp>>

\* the state of formats/writeSequences.py
wrVars == <<writeCall>>

-----------------------------------------------------------------------------
(* Bounds of the model *)

\* at most this many Edge objects are ever constructed (orphans included)
MaxEdgeObjs == 2
\* at most this many gene pairs are recorded, over all Edge objects
MaxPairs == 2

-----------------------------------------------------------------------------
(* Python dict helpers *)

Has(d, k) == \E i \in 1..Len(d) : d[i].k = k

Pos(d, k) == CHOOSE i \in 1..Len(d) : d[i].k = k

Get(d, k) == d[Pos(d, k)].v

\* d[k] = v : an existing key keeps its place, a new key goes last
Put(d, k, v) ==
    IF Has(d, k) THEN [d EXCEPT ![Pos(d, k)].v = v]
    ELSE Append(d, [k |-> k, v |-> v])

Keys(d) == {d[i].k : i \in 1..Len(d)}

Values(d) == {d[i].v : i \in 1..Len(d)}

\* the same for a dict modelled as a function
FPut(f, k, v) == [x \in DOMAIN f \cup {k} |-> IF x = k THEN v ELSE f[x]]

EmptyFn == [x \in {} |-> 0]

-----------------------------------------------------------------------------
(* The objects the callers hand in *)

OrgNames == {"A", "B"}

\* An Organism object: its name and its identity.  Identity <<"ext", i>> is an
\* object the caller constructed, <<"new", k>> the k-th object constructed by
\* Pangenome.addOrganism(str).
Organism(n, tag, i) == [name |-> n, oid |-> <<tag, i>>]

NoneOrg == [name |-> "", oid |-> <<"none", 0>>]

OrgInstances == {Organism("A", "ext", 1), Organism("A", "ext", 2), Organism("B", "ext", 1)}

\* Gene objects: ID and organism are fixed, Gene.family is state (geneFamily)
Gene(id, org) == [ID |-> id, organism |-> org]

Genes == {Gene("g1", Organism("A", "ext", 1)),
          Gene("g2", Organism("A", "ext", 1)),
          Gene("g3", Organism("B", "ext", 1))}

FamNames == {"f1", "f2"}

NoOp == [op |-> "none", err |-> ""]

-----------------------------------------------------------------------------
(* Pangenome.addOrganism *)

addOrganismInst(og, newOrg) ==
    LET oldLen == Len(og)
        og2 == Put(og, newOrg.name, newOrg)
    IN  IF Len(og2) = oldLen
        THEN [orgGetter |-> og2, err |-> "KeyError", ret |-> NoneOrg]
        ELSE [orgGetter |-> og2, err |-> "", ret |-> newOrg]

\* mutant: the lookup of the name is skipped
addOrganismStrAlwaysNew(og, alloc, newOrg) ==
    LET org == Organism(newOrg, "new", alloc + 1)
    IN  [orgGetter |-> Put(og, org.name, org), orgAlloc |-> alloc + 1,
         err |-> "", ret |-> org]

addOrganismStr(og, alloc, newOrg) ==
    IF Has(og, newOrg)
    THEN [orgGetter |-> og, orgAlloc |-> alloc, err |-> "", ret |-> Get(og, newOrg)]
    ELSE LET org == Organism(newOrg, "new", alloc + 1)
         IN  [orgGetter |-> Put(og, org.name, org), orgAlloc |-> alloc + 1,
              err |-> "", ret |-> org]

AddOrganismInstOf(insts) ==
    \E o \in insts :
        LET r == addOrganismInst(orgGetter, o) IN
        /\ orgGetter' = r.orgGetter
        /\ lastOp' = [op |-> "addOrganismInst", err |-> r.err]
        /\ UNCHANGED <<orgAlloc, famGetter, fams, max_fam_id, geneFamily,
                       edgeGetter, edgeObjs, hasOrgIndex, orgIndex,
                       famVars, regVars, wrVars>>

AddOrganismStrOf(names) ==
    \E n \in names :
        LET r == addOrganismStr(orgGetter, orgAlloc, n) IN
        /\ orgGetter' = r.orgGetter
        /\ orgAlloc' = r.orgAlloc
        /\ lastOp' = [op |-> "addOrganismStr", err |-> r.err]
        /\ UNCHANGED <<famGetter, fams, max_fam_id, geneFamily,
                       edgeGetter, edgeObjs, hasOrgIndex, orgIndex,
                       famVars, regVars, wrVars>>

-----------------------------------------------------------------------------
(* GeneFamily (pangenome.py) *)

\* value of GeneFamily.bitarray while the attribute does not exist
NoBitarray == -1

NewGeneFamily(ID, name) ==
    [name |-> name, ID |-> ID, edges |-> EmptyFn, genePerOrg |-> <<>>,
     genes |-> {}, bitarray |-> NoBitarray]

\* defaultdict(set) / defaultdict(list) read: a missing key reads as the default
GetOr(d, k, default) == IF Has(d, k) THEN Get(d, k) ELSE default

\* GeneFamily.addGene on the family with handle f
addGene(fs, gf, f, gene) ==
    LET org == gene.organism IN
    [fams |-> [fs EXCEPT ![f].genes = @ \cup {gene},
                         ![f].genePerOrg = Put(@, org, GetOr(@, org, {}) \cup {gene})],
     geneFamily |-> [gf EXCEPT ![gene] = f]]

\* gmpy2.xmpz: x[i] = 1
SetBit(x, i) == IF (x \div (2 ^ i)) % 2 = 1 THEN x ELSE x + 2 ^ i

TestBit(x, i) == (x \div (2 ^ i)) % 2 = 1

\* the loop of mkBitarray from the i-th organism of the family on
RECURSIVE mkBitarrayLoop(_, _, _, _)
mkBitarrayLoop(bits, gpo, index, i) ==
    IF i > Len(gpo) THEN [bitarray |-> bits, err |-> ""]
    ELSE IF ~Has(index, gpo[i].k) THEN [bitarray |-> bits, err |-> "KeyError"]
    ELSE mkBitarrayLoop(SetBit(bits, Get(index, gpo[i].k)), gpo, index, i + 1)

\* GeneFamily.mkBitarray
mkBitarray(fam, index) ==
    LET r == mkBitarrayLoop(0, fam.genePerOrg, index, 1) IN
    [fam |-> [fam EXCEPT !.bitarray = r.bitarray], err |-> r.err]

\* GeneFamily.organisms : the keys of _genePerOrg
PanFamilyOrganisms(fam) == Keys(fam.genePerOrg)

\* GeneFamily.getGenesPerOrg : _genePerOrg is a defaultdict(set) made by
\* __init__, so the read of a missing organism inserts it with an empty set
getGenesPerOrg(fam, org) ==
    [fam |-> IF Has(fam.genePerOrg, org) THEN fam
             ELSE [fam EXCEPT !.genePerOrg = Put(@, org, {})],
     ret |-> GetOr(fam.genePerOrg, org, {})]

-----------------------------------------------------------------------------
(* Edge *)

RECURSIVE SumLen(_, _)
SumLen(d, i) == IF i > Len(d) THEN 0 ELSE Len(d[i].v) + SumLen(d, i + 1)

\* len(edge.genePairs)
NbPairs(edge) == SumLen(edge.organisms, 1)

RECURSIVE TotalPairs(_, _)
TotalPairs(es, i) == IF i > Len(es) THEN 0 ELSE NbPairs(es[i]) + TotalPairs(es, i + 1)

\* mutant: the organisms of the two genes are not compared
EdgeAddGenesNoOrgCheck(edge, sourceGene, targetGene) ==
    LET org == sourceGene.organism IN
    [edge |-> [edge EXCEPT !.organisms =
                 Put(@, org, Append(GetOr(@, org, <<>>), <<sourceGene, targetGene>>))],
     err |-> ""]

\* Edge.addGenes
EdgeAddGenes(edge, sourceGene, targetGene) ==
    LET org == sourceGene.organism IN
    IF org # targetGene.organism
    THEN [edge |-> edge, err |-> "Exception"]
    ELSE [edge |-> [edge EXCEPT !.organisms =
                      Put(@, org, Append(GetOr(@, org, <<>>), <<sourceGene, targetGene>>))],
          err |-> ""]

\* mutant: the new Edge is registered on its source family only
EdgeInitSourceOnly(fs, es, gf, sourceGene, targetGene) ==
    IF gf[sourceGene] = 0 \/ gf[targetGene] = 0
    THEN [fams |-> fs, edgeObjs |-> es, err |-> "Exception", ret |-> 0]
    ELSE LET e == Len(es) + 1
             source == gf[sourceGene]
             target == gf[targetGene]
             fs1 == [fs EXCEPT ![source].edges = FPut(@, target, e)]
             new == [source |-> source, target |-> target, organisms |-> <<>>]
             a == EdgeAddGenes(new, sourceGene, targetGene)
         IN  [fams |-> fs1, edgeObjs |-> Append(es, a.edge), err |-> a.err,
              ret |-> IF a.err = "" THEN e ELSE 0]

\* Edge.__init__ : the new object is registered on both families before
\* addGenes validates the organisms
EdgeInit(fs, es, gf, sourceGene, targetGene) ==
    IF gf[sourceGene] = 0 \/ gf[targetGene] = 0
    THEN [fams |-> fs, edgeObjs |-> es, err |-> "Exception", ret |-> 0]
    ELSE LET e == Len(es) + 1
             source == gf[sourceGene]
             target == gf[targetGene]
             fs1 == [fs EXCEPT ![source].edges = FPut(@, target, e)]
             fs2 == [fs1 EXCEPT ![target].edges = FPut(@, source, e)]
             new == [source |-> source, target |-> target, organisms |-> <<>>]
             a == EdgeAddGenes(new, sourceGene, targetGene)
         IN  [fams |-> fs2, edgeObjs |-> Append(es, a.edge), err |-> a.err,
              ret |-> IF a.err = "" THEN e ELSE 0]

-----------------------------------------------------------------------------
(* Pangenome: families, edges, index, bitarrays *)

\* mutant: max_fam_id is not incremented
createGeneFamilyNoIncrement(fg, fs, mx, name) ==
    LET newFam == NewGeneFamily(mx, name)
        h == Len(fs) + 1
    IN  [famGetter |-> Put(fg, newFam.name, h), fams |-> Append(fs, newFam),
         max_fam_id |-> mx, ret |-> h]

\* Pangenome._createGeneFamily
createGeneFamily(fg, fs, mx, name) ==
    LET newFam == NewGeneFamily(mx, name)
        h == Len(fs) + 1
    IN  [famGetter |-> Put(fg, newFam.name, h), fams |-> Append(fs, newFam),
         max_fam_id |-> mx + 1, ret |-> h]

\* Pangenome.addGeneFamily
addGeneFamily(fg, fs, mx, name) ==
    IF Has(fg, name)
    THEN [famGetter |-> fg, fams |-> fs, max_fam_id |-> mx, ret |-> Get(fg, name)]
    ELSE createGeneFamily(fg, fs, mx, name)

\* mutant: the edge getter is not consulted, every call constructs an Edge
addEdgeAlwaysNew(fs, es, eg, gf, gene1, gene2) ==
    LET key == {gf[gene1], gf[gene2]}
        c == EdgeInit(fs, es, gf, gene1, gene2)
    IN  [fams |-> c.fams, edgeObjs |-> c.edgeObjs,
         edgeGetter |-> IF c.err = "" THEN FPut(eg, key, c.ret) ELSE eg,
         err |-> c.err, ret |-> c.ret, created |-> c.err = ""]

\* Pangenome.addEdge
addEdge(fs, es, eg, gf, gene1, gene2) ==
    LET key == {gf[gene1], gf[gene2]} IN
    IF key \notin DOMAIN eg
    THEN LET c == EdgeInit(fs, es, gf, gene1, gene2) IN
         [fams |-> c.fams, edgeObjs |-> c.edgeObjs,
          edgeGetter |-> IF c.err = "" THEN FPut(eg, key, c.ret) ELSE eg,
          err |-> c.err, ret |-> c.ret, created |-> c.err = ""]
    ELSE LET e == eg[key]
             a == EdgeAddGenes(es[e], gene1, gene2)
         IN  [fams |-> fs, edgeObjs |-> [es EXCEPT ![e] = a.edge], edgeGetter |-> eg,
              err |-> a.err, ret |-> IF a.err = "" THEN e ELSE 0, created |-> FALSE]

\* mutant: the enumeration starts at 1
RECURSIVE enumerateOrgsFromOne(_, _, _)
enumerateOrgsFromOne(idx, og, i) ==
    IF i > Len(og) THEN idx
    ELSE enumerateOrgsFromOne(Put(idx, og[i].v, i), og, i + 1)

\* for index, org in enumerate(self.organisms): self._orgIndex[org] = index
RECURSIVE enumerateOrgs(_, _, _)
enumerateOrgs(idx, og, i) ==
    IF i > Len(og) THEN idx
    ELSE enumerateOrgs(Put(idx, og[i].v, i - 1), og, i + 1)

\* mutant: the index is rebuilt by every call
getIndexRebuild(has, idx, og) ==
    [hasOrgIndex |-> TRUE, orgIndex |-> enumerateOrgs(<<>>, og, 1)]

\* Pangenome.getIndex
getIndex(has, idx, og) ==
    IF ~has THEN [hasOrgIndex |-> TRUE, orgIndex |-> enumerateOrgs(<<>>, og, 1)]
    ELSE [hasOrgIndex |-> has, orgIndex |-> idx]

\* the loop of computeFamilyBitarrays from the i-th registered family on;
\* an exception of mkBitarray ends it
RECURSIVE bitarraysLoop(_, _, _, _)
bitarraysLoop(fs, fg, idx, i) ==
    IF i > Len(fg) THEN [fams |-> fs, err |-> ""]
    ELSE LET h == fg[i].v
             r == mkBitarray(fs[h], idx)
             fs2 == [fs EXCEPT ![h] = r.fam]
         IN  IF r.err # "" THEN [fams |-> fs2, err |-> r.err]
             ELSE bitarraysLoop(fs2, fg, idx, i + 1)

\* mutant: the bitarrays are recomputed by every call
computeFamilyBitarraysAlways(has, idx, og, fs, fg) ==
    LET g == getIndex(has, idx, og)
        b == bitarraysLoop(fs, fg, g.orgIndex, 1)
    IN  [hasOrgIndex |-> g.hasOrgIndex, orgIndex |-> g.orgIndex,
         fams |-> b.fams, err |-> b.err]

\* Pangenome.computeFamilyBitarrays
computeFamilyBitarrays(has, idx, og, fs, fg) ==
    IF ~has
    THEN LET g == getIndex(has, idx, og)
             b == bitarraysLoop(fs, fg, g.orgIndex, 1)
         IN  [hasOrgIndex |-> g.hasOrgIndex, orgIndex |-> g.orgIndex,
              fams |-> b.fams, err |-> b.err]
    ELSE [hasOrgIndex |-> has, orgIndex |-> idx, fams |-> fs, err |-> ""]

AddGeneFamilyOf(names) ==
    \E n \in names :
        LET r == addGeneFamily(famGetter, fams, max_fam_id, n) IN
        /\ famGetter' = r.famGetter
        /\ fams' = r.fams
        /\ max_fam_id' = r.max_fam_id
        /\ lastOp' = [op |-> "addGeneFamily", err |-> ""]
        /\ UNCHANGED <<orgGetter, orgAlloc, geneFamily, edgeGetter, edgeObjs,
                       hasOrgIndex, orgIndex,
                       famVars, regVars, wrVars>>

\* the clustering step hands each gene to one family of the pangenome
UnassignedGenes == {g \in Genes : geneFamily[g] = 0}

AddGeneOf(genes) ==
    \E f \in 1..Len(fams), g \in genes \cap UnassignedGenes :
        LET r == addGene(fams, geneFamily, f, g) IN
        /\ fams' = r.fams
        /\ geneFamily' = r.geneFamily
        /\ lastOp' = [op |-> "addGene", err |-> ""]
        /\ UNCHANGED <<orgGetter, orgAlloc, famGetter, max_fam_id, edgeGetter,
                       edgeObjs, hasOrgIndex, orgIndex,
                       famVars, regVars, wrVars>>

\* family.addGene(gene) on any gene, one that has a family included
AddGeneAnyOf(genes) ==
    \E f \in 1..Len(fams), g \in genes :
        LET r == addGene(fams, geneFamily, f, g) IN
        /\ fams' = r.fams
        /\ geneFamily' = r.geneFamily
        /\ lastOp' = [op |-> "addGene", err |-> ""]
        /\ UNCHANGED <<orgGetter, orgAlloc, famGetter, max_fam_id, edgeGetter,
                       edgeObjs, hasOrgIndex, orgIndex,
                       famVars, regVars, wrVars>>

AddEdgeOf(genes) ==
    \E g1 \in genes, g2 \in genes :
        LET r == addEdge(fams, edgeObjs, edgeGetter, geneFamily, g1, g2) IN
        /\ Len(r.edgeObjs) <= MaxEdgeObjs
        /\ TotalPairs(r.edgeObjs, 1) <= MaxPairs
        /\ fams' = r.fams
        /\ edgeObjs' = r.edgeObjs
        /\ edgeGetter' = r.edgeGetter
        /\ lastOp' = [op |-> "addEdge", err |-> r.err]
        /\ UNCHANGED <<orgGetter, orgAlloc, famGetter, max_fam_id, geneFamily,
                       hasOrgIndex, orgIndex,
                       famVars, regVars, wrVars>>

GetIndex ==
    LET r == getIndex(hasOrgIndex, orgIndex, orgGetter) IN
    /\ hasOrgIndex' = r.hasOrgIndex
    /\ orgIndex' = r.orgIndex
    /\ lastOp' = [op |-> "getIndex", err |-> ""]
    /\ UNCHANGED <<orgGetter, orgAlloc, famGetter, fams, max_fam_id, geneFamily,
                   edgeGetter, edgeObjs,
                       famVars, regVars, wrVars>>

ComputeFamilyBitarrays ==
    LET r == computeFamilyBitarrays(hasOrgIndex, orgIndex, orgGetter, fams, famGetter) IN
    /\ hasOrgIndex' = r.hasOrgIndex
    /\ orgIndex' = r.orgIndex
    /\ fams' = r.fams
    /\ lastOp' = [op |-> "computeFamilyBitarrays", err |-> r.err]
    /\ UNCHANGED <<orgGetter, orgAlloc, famGetter, max_fam_id, geneFamily,
                   edgeGetter, edgeObjs,
                       famVars, regVars, wrVars>>

\* family.mkBitarray(pangenome._orgIndex), called on one family by the caller
MkBitarray ==
    /\ hasOrgIndex
    /\ \E f \in 1..Len(fams) :
          LET r == mkBitarray(fams[f], orgIndex) IN
          /\ fams' = [fams EXCEPT ![f] = r.fam]
          /\ lastOp' = [op |-> "mkBitarray", err |-> r.err]
    /\ UNCHANGED <<orgGetter, orgAlloc, famGetter, max_fam_id, geneFamily,
                   edgeGetter, edgeObjs, hasOrgIndex, orgIndex,
                   famVars, regVars, wrVars>>

-----------------------------------------------------------------------------
(* GeneFamily (geneFamily.py) *)

\* the GeneFamily objects the callers constructed
GFams == {1, 2}

\* value of GeneFamily.bitarray while it is None
BitarrayNone == NoBitarray

\* Gene objects handed to GeneFamily.add: obj tells apart two Gene objects of
\* one ID; organism NoneOrg is a gene whose organism is None
GGene(id, org, obj) == [ID |-> id, organism |-> org, obj |-> obj]

OrgA == Organism("A", "ext", 1)

OrgB == Organism("B", "ext", 1)

GGenes == {GGene("a", OrgA, 1), GGene("a", OrgB, 2), GGene("b", OrgB, 1),
           GGene("n", NoneOrg, 1)}

GeneIDs == {g.ID : g \in GGenes}

\* partition strings, as sequences of characters ("" is <<>>)
Partitions == {<<"P">>, <<"C">>, <<"S", "1">>, <<"X">>}

\* the index arguments given to mk_bitarray
Indexes == {<<[k |-> OrgA, v |-> 0], [k |-> OrgB, v |-> 1]>>,
            <<[k |-> OrgA, v |-> 0]>>}

\* the partition arguments given to mk_bitarray
Filters == {"all", "shell", "cloud", "accessory", "persistent"}

\* GeneFamily.__init__
NewFamily ==
    [genes_getter |-> <<>>, genePerOrg |-> <<>>, partition |-> <<>>,
     bitarray |-> BitarrayNone]

\* str.startswith for a one-character prefix
StartsWith(str, c) == Len(str) > 0 /\ str[1] = c

\* GeneFamily.__setitem__
setitem(fam, identifier, gene) ==
    IF Has(fam.genes_getter, identifier)
    THEN [fam |-> fam, err |-> "KeyError"]
    ELSE [fam |-> [fam EXCEPT !.genes_getter = Put(@, identifier, gene)], err |-> ""]

\* mutant: the back-reference of the gene is set before the gene is stored
addFamilyFirst(fs, gf, f, gene) ==
    LET s == setitem(fs[f], gene.ID, gene) IN
    IF s.err # "" THEN [gfams |-> fs, G_family |-> [gf EXCEPT ![gene] = f], err |-> s.err]
    ELSE [gfams |-> [fs EXCEPT ![f] =
                       IF gene.organism # NoneOrg
                       THEN [s.fam EXCEPT !.genePerOrg =
                               Put(@, gene.organism, GetOr(@, gene.organism, {}) \cup {gene})]
                       ELSE s.fam],
          G_family |-> [gf EXCEPT ![gene] = f],
          err |-> ""]

\* mutant: a gene that has a family keeps it
addKeepsFirstFamily(fs, gf, f, gene) ==
    LET s == setitem(fs[f], gene.ID, gene) IN
    IF s.err # "" THEN [gfams |-> fs, G_family |-> gf, err |-> s.err]
    ELSE [gfams |-> [fs EXCEPT ![f] =
                       IF gene.organism # NoneOrg
                       THEN [s.fam EXCEPT !.genePerOrg =
                               Put(@, gene.organism, GetOr(@, gene.organism, {}) \cup {gene})]
                       ELSE s.fam],
          G_family |-> IF gf[gene] = 0 THEN [gf EXCEPT ![gene] = f] ELSE gf,
          err |-> ""]

\* GeneFamily.add on the family with handle f
add(fs, gf, f, gene) ==
    LET s == setitem(fs[f], gene.ID, gene) IN
    IF s.err # "" THEN [gfams |-> fs, G_family |-> gf, err |-> s.err]
    ELSE [gfams |-> [fs EXCEPT ![f] =
                       IF gene.organism # NoneOrg
                       THEN [s.fam EXCEPT !.genePerOrg =
                               Put(@, gene.organism, GetOr(@, gene.organism, {}) \cup {gene})]
                       ELSE s.fam],
          G_family |-> [gf EXCEPT ![gene] = f],
          err |-> ""]

\* del d[k] : the entries after k move up
DelKey(d, k) == SubSeq(d, 1, Pos(d, k) - 1) \o SubSeq(d, Pos(d, k) + 1, Len(d))

\* GeneFamily.__delitem__
delitem(fam, identifier) ==
    IF Has(fam.genes_getter, identifier)
    THEN [fam |-> [fam EXCEPT !.genes_getter = DelKey(@, identifier)], err |-> ""]
    ELSE [fam |-> fam, err |-> "KeyError"]

\* GeneFamily.remove
remove(fam, identifier) == delitem(fam, identifier)

\* mutant: an unset partition is not told apart from an unknown one
named_partitionNoUnsetCheck(fam) ==
    IF StartsWith(fam.partition, "P") THEN [ret |-> "persistent", err |-> ""]
    ELSE IF StartsWith(fam.partition, "C") THEN [ret |-> "cloud", err |-> ""]
    ELSE IF StartsWith(fam.partition, "S") THEN [ret |-> "shell", err |-> ""]
    ELSE [ret |-> "undefined", err |-> ""]

\* GeneFamily.named_partition
named_partition(fam) ==
    IF fam.partition = <<>> THEN [ret |-> "", err |-> "ValueError"]
    ELSE IF StartsWith(fam.partition, "P") THEN [ret |-> "persistent", err |-> ""]
    ELSE IF StartsWith(fam.partition, "C") THEN [ret |-> "cloud", err |-> ""]
    ELSE IF StartsWith(fam.partition, "S") THEN [ret |-> "shell", err |-> ""]
    ELSE [ret |-> "undefined", err |-> ""]

\* the loop of get_org_dict from the i-th gene of the family on
RECURSIVE get_org_dict_loop(_, _, _)
get_org_dict_loop(gpo, getter, i) ==
    IF i > Len(getter) THEN [genePerOrg |-> gpo, err |-> ""]
    ELSE LET gene == getter[i].v IN
         IF gene.organism = NoneOrg
         THEN [genePerOrg |-> gpo, err |-> "AttributeError"]
         ELSE get_org_dict_loop(
                 Put(gpo, gene.organism, GetOr(gpo, gene.organism, {}) \cup {gene}),
                 getter, i + 1)

\* GeneFamily.__len__
FamilyLen(fam) == Len(fam.genes_getter)

\* GeneFamily.number_of_genes : len(self._genes), an attribute that no method
\* of GeneFamily assigns
number_of_genes(fam) == [ret |-> 0, err |-> "AttributeError"]

\* GeneFamily.get_org_dict
get_org_dict(fam) ==
    IF Len(fam.genePerOrg) = 0
    THEN LET r == get_org_dict_loop(fam.genePerOrg, fam.genes_getter, 1) IN
         [fam |-> [fam EXCEPT !.genePerOrg = r.genePerOrg], err |-> r.err]
    ELSE [fam |-> fam, err |-> ""]

\* GeneFamily.organisms : the keys of the (possibly just built) cache
organisms(fam) == get_org_dict(fam)

\* for org in self.organisms: self.bitarray[index[org]] = 1
mk_bitarray_fill(fam, index) ==
    LET o == organisms(fam) IN
    IF o.err # "" THEN o
    ELSE LET b == mkBitarrayLoop(fam.bitarray, o.fam.genePerOrg, index, 1) IN
         [fam |-> [o.fam EXCEPT !.bitarray = b.bitarray], err |-> b.err]

\* GeneFamily.mk_bitarray
mk_bitarray(fam, index, partition) ==
    LET f0 == [fam EXCEPT !.bitarray = 0]
        np == named_partition(f0)
    IN  IF partition = "all" THEN mk_bitarray_fill(f0, index)
        ELSE IF partition \in {"shell", "cloud"}
        THEN IF np.err # "" THEN [fam |-> f0, err |-> np.err]
             ELSE IF np.ret = partition THEN mk_bitarray_fill(f0, index)
             ELSE [fam |-> f0, err |-> ""]
        ELSE IF partition = "accessory"
        THEN IF np.err # "" THEN [fam |-> f0, err |-> np.err]
             ELSE IF np.ret \in {"shell", "cloud"} THEN mk_bitarray_fill(f0, index)
             ELSE [fam |-> f0, err |-> ""]
        ELSE [fam |-> f0, err |-> ""]

FamAddOf(families, genes) ==
    \E f \in families, g \in genes :
        LET r == add(gfams, G_family, f, g) IN
        /\ gfams' = r.gfams
        /\ G_family' = r.G_family
        /\ F_lastOp' = [op |-> "add", err |-> r.err]
        /\ UNCHANGED <<panVars, regVars, wrVars>>

\* family[gene.ID] = gene, called by the caller: the gene is stored under its
\* ID and neither gene.family nor _genePerOrg is written
FamSetItemOf(families, genes) ==
    \E f \in families, g \in genes :
        LET r == setitem(gfams[f], g.ID, g) IN
        /\ gfams' = [gfams EXCEPT ![f] = r.fam]
        /\ F_lastOp' = [op |-> "__setitem__", err |-> r.err]
        /\ UNCHANGED <<G_family, panVars, regVars, wrVars>>

FamRemoveOf(families) ==
    \E f \in families, id \in GeneIDs :
        LET r == remove(gfams[f], id) IN
        /\ gfams' = [gfams EXCEPT ![f] = r.fam]
        /\ F_lastOp' = [op |-> "remove", err |-> r.err]
        /\ UNCHANGED <<G_family, panVars, regVars, wrVars>>

\* family.partition = p
FamSetPartitionOf(families) ==
    \E f \in families, p \in Partitions :
        /\ gfams' = [gfams EXCEPT ![f].partition = p]
        /\ F_lastOp' = [op |-> "partition", err |-> ""]
        /\ UNCHANGED <<G_family, panVars, regVars, wrVars>>

\* family.named_partition is read
FamNamedPartitionOf(families) ==
    \E f \in families :
        LET r == named_partition(gfams[f]) IN
        /\ F_lastOp' = [op |-> "named_partition", err |-> r.err]
        /\ UNCHANGED <<gfams, G_family, panVars, regVars, wrVars>>

FamGetOrgDictOf(families) ==
    \E f \in families :
        LET r == get_org_dict(gfams[f]) IN
        /\ gfams' = [gfams EXCEPT ![f] = r.fam]
        /\ F_lastOp' = [op |-> "get_org_dict", err |-> r.err]
        /\ UNCHANGED <<G_family, panVars, regVars, wrVars>>

FamMkBitarrayOf(families) ==
    \E f \in families, index \in Indexes, partition \in Filters :
        LET r == mk_bitarray(gfams[f], index, partition) IN
        /\ gfams' = [gfams EXCEPT ![f] = r.fam]
        /\ F_lastOp' = [op |-> "mk_bitarray", err |-> r.err]
        /\ UNCHANGED <<G_family, panVars, regVars, wrVars>>

InitFam ==
    /\ gfams = [f \in GFams |-> NewFamily]
    /\ G_family = [g \in GGenes |-> 0]
    /\ F_lastOp = NoOp

-----------------------------------------------------------------------------
(* Region of pangenome.py, on the genes of one Contig *)

\* a contig holds at most this many genes
MaxContig == 3
\* the n of getBorderingGenes is at most this
MaxN == 2
\* a region holds at most this many genes
MaxRegion == 3

\* the GeneFamily objects of the contig's genes, by handle
RFamilies == {1, 2, 3}

\* the families of the contigs on which regions are only compared and registered
EqFamilies == {1, 2}

\* GeneFamily.partition of each of them, as addPartition left it ("" is unset)
RPartition == <<  <<"P">>, <<"S">>, <<>>  >>

\* the Region objects, by handle
RegionHandles == {1, 2}

\* the multigenics argument of getBorderingGenes
Multigenics == {{}, {1}}

\* a Contig: genes[p + 1] is the family of the gene whose position is p
Contigs(families) ==
    {[genes |-> g, is_circular |-> c] :
        g \in UNION {[1..k -> families] : k \in 1..MaxContig}, c \in BOOLEAN}

NoContig == [genes |-> <<>>, is_circular |-> FALSE]

\* GeneFamily.namedPartition of pangenome.py
namedPartition(partition) ==
    IF partition = <<>> THEN [ret |-> "", err |-> "Exception"]
    ELSE IF StartsWith(partition, "P") THEN [ret |-> "persistent", err |-> ""]
    ELSE IF StartsWith(partition, "C") THEN [ret |-> "cloud", err |-> ""]
    ELSE IF StartsWith(partition, "S") THEN [ret |-> "shell", err |-> ""]
    ELSE [ret |-> "undefined", err |-> ""]

\* Region.__init__ : a region holds the positions of its genes on the contig
NewRegion == [genes |-> <<>>]

\* Region.append, given a Gene
append(region, position) == [region EXCEPT !.genes = Append(@, position)]

\* [ gene.family for gene in region.genes ]
RegionFamilies(c, region) ==
    [i \in 1..Len(region.genes) |-> c.genes[region.genes[i] + 1]]

\* seq[::-1]
Reversed(s) == [i \in 1..Len(s) |-> s[Len(s) + 1 - i]]

\* mutant: the reversed comparison is missing
RegionEqForwardOnly(c, self, other) ==
    RegionFamilies(c, self) = RegionFamilies(c, other)

\* Region.__eq__ between two Region objects
RegionEq(c, self, other) ==
    IF RegionFamilies(c, self) = RegionFamilies(c, other) THEN TRUE
    ELSE IF RegionFamilies(c, self)
              = RegionFamilies(c, [genes |-> Reversed(other.genes)]) THEN TRUE
    ELSE FALSE

\* Region.isContigBorder
isContigBorder(c, region) ==
    IF Len(region.genes) = 0 THEN [ret |-> FALSE, err |-> "Exception"]
    ELSE IF region.genes[Len(region.genes)] = 0 /\ ~c.is_circular
         THEN [ret |-> TRUE, err |-> ""]
    ELSE IF region.genes[1] = Len(c.genes) - 1 /\ ~c.is_circular
         THEN [ret |-> TRUE, err |-> ""]
    ELSE [ret |-> FALSE, err |-> ""]

\* set(regionGroup) : Region.__hash__ is id(self), so the set holds one entry
\* per Region object
SetOf(regionGroup) == {regionGroup[i] : i \in 1..Len(regionGroup)}

\* Pangenome.addRegions given a Region: Region has no __iter__, it is no
\* Iterable, and set |= Region raises TypeError
addRegionsSingle(rs, region) ==
    [regions |-> rs, err |-> "TypeError"]

\* Pangenome.addRegions given an Iterable of Region objects
addRegionsIterable(rs, regionGroup) ==
    [regions |-> rs \cup SetOf(regionGroup), err |-> ""]

\* the walk of getBorderingGenes when no call is running
NoWalk == [pc |-> "idle", region |-> 0, n |-> 0, multigenics |-> {},
           pos |-> 0, init |-> 0, border |-> <<  <<>>, <<>>  >>]

\* a new genome's contig is handed over
NewContigOf(families) ==
    \E c \in Contigs(families) :
        /\ contig = NoContig
        /\ contig' = c
        /\ R_lastOp' = [op |-> "Contig", err |-> ""]
        /\ UNCHANGED <<regions, panRegions, walk, panVars, famVars, wrVars>>

\* Region(ID)
RegionNewOf(handles) ==
    /\ contig # NoContig
    /\ Len(regions) + 1 \in handles
    /\ walk.pc = "idle"
    /\ regions' = Append(regions, NewRegion)
    /\ R_lastOp' = [op |-> "Region", err |-> ""]
    /\ UNCHANGED <<contig, panRegions, walk, panVars, famVars, wrVars>>

\* region.append(gene), for any gene of the contig, between two calls of
\* getBorderingGenes
RegionAppend ==
    /\ walk.pc \in {"idle", "done", "raised"}
    /\ \E h \in 1..Len(regions), p \in 0..Len(contig.genes) - 1 :
          /\ Len(regions[h].genes) < MaxRegion
          /\ regions' = [regions EXCEPT ![h] = append(@, p)]
    /\ R_lastOp' = [op |-> "append", err |-> ""]
    /\ UNCHANGED <<contig, panRegions, walk, panVars, famVars, wrVars>>

\* pangenome.addRegions(region)
AddRegionsSingle ==
    \E h \in 1..Len(regions) :
        LET r == addRegionsSingle(panRegions, h) IN
        /\ panRegions' = r.regions
        /\ R_lastOp' = [op |-> "addRegionsSingle", err |-> r.err]
        /\ UNCHANGED <<contig, regions, walk, panVars, famVars, wrVars>>

\* pangenome.addRegions([region, ...])
AddRegionsIterable ==
    \E regionGroup \in UNION {[1..k -> 1..Len(regions)] : k \in 0..2} :
        LET r == addRegionsIterable(panRegions, regionGroup) IN
        /\ panRegions' = r.regions
        /\ R_lastOp' = [op |-> "addRegionsIterable", err |-> r.err]
        /\ UNCHANGED <<contig, regions, walk, panVars, famVars, wrVars>>

\* objects that are no Region, by handle: the one-character strings "a", "b"
StrObjects == {11, 12}

\* pangenome.addRegions(iterable) where the elements of the iterable are
\* Region objects or strings; a plain string is the iterable of its characters
AddRegionsObjects ==
    \E regionGroup \in UNION {[1..k -> (1..Len(regions)) \cup StrObjects] : k \in 1..2} :
        LET r == addRegionsIterable(panRegions, regionGroup) IN
        /\ panRegions' = r.regions
        /\ R_lastOp' = [op |-> "addRegionsIterable", err |-> r.err]
        /\ UNCHANGED <<contig, regions, walk, panVars, famVars, wrVars>>

\* seq[i] of a Python list, a negative i counting from the end
PyAt(seq, i) == IF i >= 0 THEN seq[i + 1] ELSE seq[Len(seq) + i + 1]

\* getBorderingGenes up to its first loop: pos = self.genes[-1].position
startWalk(c, heap, h, n, multigenics) ==
    IF Len(heap[h].genes) = 0
    THEN [NoWalk EXCEPT !.pc = "raised", !.region = h, !.n = n,
                        !.multigenics = multigenics]
    ELSE [pc |-> "left", region |-> h, n |-> n, multigenics |-> multigenics,
          pos |-> PyAt(heap[h].genes, -1), init |-> PyAt(heap[h].genes, -1),
          border |-> <<  <<>>, <<>>  >>]

\* the condition of the first while loop
leftCond(c, w) ==
    Len(w.border[1]) < w.n /\ (w.pos # 0 /\ ~c.is_circular)

\* mutant: the walk does not move
leftBodyNoDecrement(c, w) ==
    LET curr_fam == IF w.pos = 0
                    THEN IF c.is_circular THEN PyAt(c.genes, -1) ELSE 0
                    ELSE PyAt(c.genes, w.pos - 1)
        tested == curr_fam # 0 /\ curr_fam \notin w.multigenics
        np == namedPartition(RPartition[curr_fam])
        b == IF tested /\ np.ret = "persistent"
             THEN Append(w.border[1], curr_fam) ELSE w.border[1]
    IN  IF tested /\ np.err # ""
        THEN [w |-> w, brk |-> FALSE, err |-> np.err]
        ELSE [w |-> [w EXCEPT !.border[1] = b], brk |-> FALSE, err |-> ""]

\* the body of the first while loop: brk is its break, err its exception
leftBody(c, w) ==
    LET curr_fam == IF w.pos = 0
                    THEN IF c.is_circular THEN PyAt(c.genes, -1) ELSE 0
                    ELSE PyAt(c.genes, w.pos - 1)
        tested == curr_fam # 0 /\ curr_fam \notin w.multigenics
        np == namedPartition(RPartition[curr_fam])
        b == IF tested /\ np.ret = "persistent"
             THEN Append(w.border[1], curr_fam) ELSE w.border[1]
        pos1 == w.pos - 1
        pos2 == IF pos1 = -1 /\ c.is_circular THEN Len(c.genes) ELSE pos1
    IN  IF tested /\ np.err # ""
        THEN [w |-> w, brk |-> FALSE, err |-> np.err]
        ELSE [w |-> [w EXCEPT !.border[1] = b, !.pos = pos2],
              brk |-> (pos2 = w.init), err |-> ""]

\* between the loops: pos = self.genes[0].position
beginRight(heap, w) ==
    [w EXCEPT !.pc = "right", !.pos = heap[w.region].genes[1],
              !.init = heap[w.region].genes[1]]

\* one pass through the head of the first while loop
leftStep(c, heap, w) ==
    IF leftCond(c, w)
    THEN LET b == leftBody(c, w) IN
         IF b.err # "" THEN [w EXCEPT !.pc = "raised"]
         ELSE IF b.brk THEN beginRight(heap, b.w)
         ELSE b.w
    ELSE beginRight(heap, w)

\* the condition of the second while loop
rightCond(c, w) ==
    Len(w.border[2]) < w.n /\ (w.pos # Len(c.genes) - 1 /\ ~c.is_circular)

\* mutant: the second loop filters on the persistent partition as the first does
rightBodyPersistentOnly(c, w) ==
    LET curr_fam == IF w.pos = Len(c.genes) - 1
                    THEN IF c.is_circular THEN PyAt(c.genes, 0) ELSE 0
                    ELSE PyAt(c.genes, w.pos + 1)
        b == IF /\ curr_fam # 0 /\ curr_fam \notin w.multigenics
                /\ namedPartition(RPartition[curr_fam]).ret = "persistent"
             THEN Append(w.border[2], curr_fam) ELSE w.border[2]
        pos1 == w.pos + 1
        pos2 == IF pos1 = Len(c.genes) /\ c.is_circular THEN -1 ELSE pos1
    IN  [w |-> [w EXCEPT !.border[2] = b, !.pos = pos2],
         brk |-> (pos2 = w.init), err |-> ""]

\* the body of the second while loop
rightBody(c, w) ==
    LET curr_fam == IF w.pos = Len(c.genes) - 1
                    THEN IF c.is_circular THEN PyAt(c.genes, 0) ELSE 0
                    ELSE PyAt(c.genes, w.pos + 1)
        b == IF curr_fam # 0 /\ curr_fam \notin w.multigenics
             THEN Append(w.border[2], curr_fam) ELSE w.border[2]
        pos1 == w.pos + 1
        pos2 == IF pos1 = Len(c.genes) /\ c.is_circular THEN -1 ELSE pos1
    IN  [w |-> [w EXCEPT !.border[2] = b, !.pos = pos2],
         brk |-> (pos2 = w.init), err |-> ""]

\* one pass through the head of the second while loop; return border
rightStep(c, w) ==
    IF rightCond(c, w)
    THEN LET b == rightBody(c, w) IN
         IF b.brk THEN [b.w EXCEPT !.pc = "done"] ELSE b.w
    ELSE [w EXCEPT !.pc = "done"]

\* region.getBorderingGenes(n, multigenics) is called
GetBorderingGenes ==
    \E h \in 1..Len(regions), n \in 0..MaxN, multigenics \in Multigenics :
        /\ walk.pc \in {"idle", "done", "raised"}
        /\ walk' = startWalk(contig, regions, h, n, multigenics)
        /\ R_lastOp' = [op |-> "getBorderingGenes",
                        err |-> IF Len(regions[h].genes) = 0 THEN "IndexError" ELSE ""]
        /\ UNCHANGED <<contig, regions, panRegions, panVars, famVars, wrVars>>

\* the running call goes once round its first loop
LeftStep ==
    /\ walk.pc = "left"
    /\ walk' = leftStep(contig, regions, walk)
    /\ R_lastOp' = [op |-> "getBorderingGenes",
                    err |-> IF walk'.pc = "raised" THEN "Exception" ELSE ""]
    /\ UNCHANGED <<contig, regions, panRegions, panVars, famVars, wrVars>>

\* the running call goes once round its second loop, or returns
RightStep ==
    /\ walk.pc = "right"
    /\ walk' = rightStep(contig, walk)
    /\ UNCHANGED <<contig, regions, panRegions, R_lastOp, panVars, famVars, wrVars>>

InitRegion ==
    /\ contig = NoContig
    /\ regions = <<>>
    /\ panRegions = {}
    /\ walk = NoWalk
    /\ R_lastOp = NoOp

-----------------------------------------------------------------------------
(* check_pangenome_to_write_sequences of formats/writeSequences.py *)

\* None
PyNone == "<None>"

\* the values given for regions, genes, genes_prot, gene_families, prot_families
FilterArgs == {PyNone, "", "all", "persistent", "rgp", "core", "module_1", "module_x"}

\* bool(x) of a str or None
Truthy(x) == x # PyNone /\ x # ""

\* 'module_' in x
ContainsModule(x) == x \in {"module_1", "module_x"}

\* module_regex.match(x), module_regex being ^module_\d+
MatchesModuleRegex(x) == x \in {"module_1"}

\* poss_values : the values that the filter arguments are documented to take
InPossValues(x) ==
    \/ x \in {"all", "persistent", "shell", "cloud", "rgp", "softcore", "core"}
    \/ MatchesModuleRegex(x)

\* pangenome.status["geneSequences"], pangenome.status["geneFamilySequences"]
Statuses == {[geneSequences |-> "No", geneFamilySequences |-> "No"],
             [geneSequences |-> "inFile", geneFamilySequences |-> "Loaded"]}

\* check_pangenome_to_write_sequences : the exception it raises, "" when it
\* goes on to check_pangenome_info
check_pangenome_to_write_sequences(status, regions_, genes, genes_prot, gene_families, prot_families) ==
    LET need_families_1 == prot_families # PyNone
        need_annotations_1 == prot_families # PyNone /\ prot_families \in {"core", "softcore"}
        any_1 == \E x \in {regions_, genes, genes_prot, gene_families} : x # PyNone
        need_annotations_2 == need_annotations_1 \/ any_1
        need_families == need_families_1 \/ any_1
        rgp == \/ regions_ # PyNone
               \/ \E x \in {genes, gene_families, prot_families} : x = "rgp"
        need_annotations == need_annotations_2 \/ rgp
        need_regions == rgp
        need_partitions == \E x \in {genes, gene_families, prot_families} :
                              x \in {"persistent", "shell", "cloud"}
        need_modules == \E x \in {genes, gene_families, prot_families} :
                              x # PyNone /\ ContainsModule(x)
        need_graph == FALSE
        need_spots == FALSE
    IN  IF ~\E x \in {regions_, genes, genes_prot, prot_families, gene_families} : Truthy(x)
        THEN "AssertionError"
        ELSE IF ~(need_annotations \/ need_families \/ need_graph \/ need_partitions
                    \/ need_spots \/ need_regions \/ need_modules)
        THEN "ValueError"
        ELSE IF /\ status.geneSequences \notin {"inFile"}
                /\ (Truthy(genes) \/ Truthy(gene_families))
        THEN "AttributeError"
        ELSE IF /\ status.geneFamilySequences \notin {"Loaded", "Computed", "inFile"}
                /\ Truthy(prot_families)
        THEN "AttributeError"
        ELSE ""

NoWriteCall ==
    [op |-> "none", status |-> [geneSequences |-> "No", geneFamilySequences |-> "No"],
     regions |-> PyNone, genes |-> PyNone, genes_prot |-> PyNone,
     gene_families |-> PyNone, prot_families |-> PyNone, err |-> ""]

\* check_pangenome_to_write_sequences(pangenome, regions, genes, ...) is called,
\* once in a run of the command
CheckPangenomeToWriteSequences ==
    /\ writeCall = NoWriteCall
    /\ \E status \in Statuses,
          regions_ \in FilterArgs, genes \in FilterArgs, genes_prot \in FilterArgs,
          gene_families \in FilterArgs, prot_families \in FilterArgs :
           writeCall' =
             [op |-> "check_pangenome_to_write_sequences", status |-> status,
              regions |-> regions_, genes |-> genes, genes_prot |-> genes_prot,
              gene_families |-> gene_families, prot_families |-> prot_families,
              err |-> check_pangenome_to_write_sequences(status, regions_, genes,
                          genes_prot, gene_families, prot_families)]
    /\ UNCHANGED <<panVars, famVars, regVars>>

InitWrite == writeCall = NoWriteCall

-----------------------------------------------------------------------------

InitPan ==
    /\ orgGetter = <<>>
    /\ orgAlloc = 0
    /\ famGetter = <<>>
    /\ fams = <<>>
    /\ max_fam_id = 0
    /\ geneFamily = [g \in Genes |-> 0]
    /\ edgeGetter = EmptyFn
    /\ edgeObjs = <<>>
    /\ hasOrgIndex = FALSE
    /\ orgIndex = <<>>
    /\ lastOp = NoOp

Init == InitPan /\ InitFam /\ InitRegion /\ InitWrite

AddOrganismInst == AddOrganismInstOf(OrgInstances)

AddOrganismStr == AddOrganismStrOf(OrgNames)

AddGeneFamily == AddGeneFamilyOf(FamNames)

AddGene == AddGeneOf(Genes)

AddEdge == AddEdgeOf(Genes)

(* Direct use of the Edge class: Edge(sourceGene, targetGene) *)
NewEdge ==
    \E g1 \in Genes, g2 \in Genes :
        LET r == EdgeInit(fams, edgeObjs, geneFamily, g1, g2) IN
        /\ Len(r.edgeObjs) <= MaxEdgeObjs
        /\ TotalPairs(r.edgeObjs, 1) <= MaxPairs
        /\ fams' = r.fams
        /\ edgeObjs' = r.edgeObjs
        /\ lastOp' = [op |-> "Edge", err |-> r.err]
        /\ UNCHANGED <<orgGetter, orgAlloc, famGetter, max_fam_id, geneFamily,
                       edgeGetter, hasOrgIndex, orgIndex,
                       famVars, regVars, wrVars>>

(* Direct use of the Edge class: edge.addGenes(sourceGene, targetGene) *)
EdgeAddGenesDirect ==
    \E e \in 1..Len(edgeObjs), g1 \in Genes, g2 \in Genes :
        LET r == EdgeAddGenes(edgeObjs[e], g1, g2) IN
        /\ TotalPairs([edgeObjs EXCEPT ![e] = r.edge], 1) <= MaxPairs
        /\ edgeObjs' = [edgeObjs EXCEPT ![e] = r.edge]
        /\ lastOp' = [op |-> "Edge.addGenes", err |-> r.err]
        /\ UNCHANGED <<orgGetter, orgAlloc, famGetter, fams, max_fam_id, geneFamily,
                       edgeGetter, hasOrgIndex, orgIndex,
                       famVars, regVars, wrVars>>

(* The organism registry and its index *)
NextOrg ==
    \/ AddOrganismInst
    \/ AddOrganismStr
    \/ GetIndex

SpecOrg == Init /\ [][NextOrg]_vars

(* The graph built through the Pangenome: families, their genes, edges *)
NextGraph ==
    \/ AddGeneFamily
    \/ AddGene
    \/ AddEdge

SpecGraph == Init /\ [][NextGraph]_vars

\* the family names of the specifications that need one family only
PanFamNames == {"f1"}

PanAddGeneFamily == AddGeneFamilyOf(PanFamNames)

(* One family, with callers that also use the Edge class directly *)
NextEdge ==
    \/ PanAddGeneFamily
    \/ AddGene
    \/ AddEdge
    \/ NewEdge
    \/ EdgeAddGenesDirect

SpecEdge == Init /\ [][NextEdge]_vars

(* The whole Pangenome, on one family and one gene per organism *)
PanOrgs == {Organism("A", "ext", 1), Organism("B", "ext", 1)}

PanGenes == {g \in Genes : g.ID \in {"g1", "g3"}}

PanAddOrganismInst == AddOrganismInstOf(PanOrgs)

PanAddGene == AddGeneOf(PanGenes)

PanAddEdge == AddEdgeOf(PanGenes)

Next ==
    \/ PanAddOrganismInst
    \/ AddOrganismStr
    \/ PanAddGeneFamily
    \/ PanAddGene
    \/ PanAddEdge
    \/ GetIndex
    \/ ComputeFamilyBitarrays
    \/ MkBitarray

Spec == Init /\ [][Next]_vars

(* One family queried for its genes per organism *)
GetGenesPerOrg ==
    \E f \in 1..Len(fams), org \in PanOrgs :
        LET r == getGenesPerOrg(fams[f], org) IN
        /\ fams' = [fams EXCEPT ![f] = r.fam]
        /\ lastOp' = [op |-> "getGenesPerOrg", err |-> ""]
        /\ UNCHANGED <<orgGetter, orgAlloc, famGetter, max_fam_id, geneFamily,
                       edgeGetter, edgeObjs, hasOrgIndex, orgIndex,
                       famVars, regVars, wrVars>>

NextQuery ==
    \/ PanAddOrganismInst
    \/ PanAddGeneFamily
    \/ PanAddGene
    \/ GetGenesPerOrg
    \/ GetIndex
    \/ ComputeFamilyBitarrays
    \/ MkBitarray

SpecQuery == Init /\ [][NextQuery]_vars

(* One GeneFamily object of geneFamily.py *)
OneFam == {1}

FamAdd == FamAddOf(OneFam, GGenes)

FamSetItem == FamSetItemOf(OneFam, GGenes)

FamRemove == FamRemoveOf(OneFam)

FamSetPartition == FamSetPartitionOf(OneFam)

FamGetOrgDict == FamGetOrgDictOf(OneFam)

FamMkBitarray == FamMkBitarrayOf(OneFam)

\* family.number_of_genes is read
FamNumberOfGenes ==
    \E f \in OneFam :
        LET r == number_of_genes(gfams[f]) IN
        /\ F_lastOp' = [op |-> "number_of_genes", err |-> r.err]
        /\ UNCHANGED <<gfams, G_family, panVars, regVars, wrVars>>

NextFam ==
    \/ FamAdd
    \/ FamSetItem
    \/ FamRemove
    \/ FamSetPartition
    \/ FamGetOrgDict
    \/ FamMkBitarray
    \/ FamNumberOfGenes

SpecFam == Init /\ [][NextFam]_vars

(* One GeneFamily object: the calls that store and drop its genes *)
NextAdd ==
    \/ FamAdd
    \/ FamSetItem
    \/ FamRemove
    \/ FamGetOrgDict

SpecAdd == Init /\ [][NextAdd]_vars

RegionNew == RegionNewOf(RegionHandles)

EqContig == NewContigOf(EqFamilies)

(* Regions of one contig, compared and registered in the Pangenome *)
NextRegion ==
    \/ EqContig
    \/ RegionNew
    \/ RegionAppend
    \/ AddRegionsSingle
    \/ AddRegionsIterable

SpecRegion == Init /\ [][NextRegion]_vars

\* the Region object of the specifications that need one region only
OneRegion == {1}

BorderRegionNew == RegionNewOf(OneRegion)

NewContig == NewContigOf(RFamilies)

(* One region and the search of its bordering genes *)
NextBorder ==
    \/ NewContig
    \/ BorderRegionNew
    \/ RegionAppend
    \/ GetBorderingGenes
    \/ LeftStep
    \/ RightStep

SpecBorder == Init /\ [][NextBorder]_vars

(* One region and other objects handed to addRegions *)
NextObjects ==
    \/ EqContig
    \/ BorderRegionNew
    \/ RegionAppend
    \/ AddRegionsObjects

SpecObjects == Init /\ [][NextObjects]_vars

\* a call of getBorderingGenes that was started keeps running
SpecBorderFair ==
    /\ Init
    /\ [][NextBorder]_vars
    /\ WF_vars(LeftStep)
    /\ WF_vars(RightStep)

FamNamedPartition == FamNamedPartitionOf(OneFam)

(* One GeneFamily: its genes, its partition and the reading of its name *)
NextPartition ==
    \/ FamAdd
    \/ FamSetItem
    \/ FamSetPartition
    \/ FamNamedPartition

SpecPartition == Init /\ [][NextPartition]_vars

\* the genes that are handed from one family to another
MovedGenes == {g \in GGenes : g.obj = 1 /\ g.organism # NoneOrg}

FamAddMoved == FamAddOf(GFams, MovedGenes)

FamSetItemMoved == FamSetItemOf(GFams, MovedGenes)

ReassignGene == AddGeneAnyOf(PanGenes)

(* Two families of each module and the genes that move between them *)
NextReassign ==
    \/ FamAddMoved
    \/ FamSetItemMoved
    \/ AddGeneFamily
    \/ ReassignGene

SpecReassign == Init /\ [][NextReassign]_vars

(* The checks made before sequences are written *)
NextWrite == CheckPangenomeToWriteSequences

SpecWrite == Init /\ [][NextWrite]_vars

-----------------------------------------------------------------------------
(* Properties *)

\* C1: addOrganism given an Organism whose name is already registered raises
\* and leaves the registry as it was: the name still maps to the object that
\* was registered before the call, and the number of organisms is unchanged.
C1_FailedAddOrganismChangesNothing ==
    [][(lastOp'.op = "addOrganismInst" /\ lastOp'.err = "KeyError")
          => orgGetter' = orgGetter]_vars

\* C2: addOrganism(name) is a get-or-create: in every reachable state, a call
\* with name n, then a call with any name m, then a call with n again: both
\* calls with n return the same object, which bears the name n and is the one
\* registered before if there was one; the first call grows the registry by
\* one exactly when n was not registered, the later call by zero.
C2_AddOrganismByNameIsGetOrCreate ==
    \A n \in OrgNames, m \in OrgNames :
        LET r1 == addOrganismStr(orgGetter, orgAlloc, n)
            rm == addOrganismStr(r1.orgGetter, r1.orgAlloc, m)
            r2 == addOrganismStr(rm.orgGetter, rm.orgAlloc, n)
        IN  /\ r1.err = "" /\ r2.err = ""
            /\ r1.ret.name = n
            /\ r2.ret = r1.ret
            /\ Has(orgGetter, n) => (r1.ret = Get(orgGetter, n) /\ r1.orgGetter = orgGetter)
            /\ Len(r1.orgGetter) = Len(orgGetter) + (IF Has(orgGetter, n) THEN 0 ELSE 1)
            /\ Len(r2.orgGetter) = Len(rm.orgGetter)

\* C2 witness: both names were created by addOrganism(name), the last call
\* returning an object made by an earlier one
C2_Witness ==
    /\ lastOp.op = "addOrganismStr"
    /\ orgAlloc = 2
    /\ \A n \in OrgNames : Has(orgGetter, n) /\ Get(orgGetter, n).oid[1] = "new"

FamIdsAndNamesUnique(fg, fs, mx) ==
    /\ \A i, j \in 1..Len(fg) :
          i # j => /\ fs[fg[i].v].ID # fs[fg[j].v].ID
                   /\ fs[fg[i].v].name # fs[fg[j].v].name
    /\ \A h \in 1..Len(fs) : fs[h].ID < mx

\* C3: after any sequence of addGeneFamily calls no two registered families
\* share an ID or a name and max_fam_id is above every ID handed out; no step
\* decreases max_fam_id; addGeneFamily(name) for a registered name returns the
\* registered family and changes neither max_fam_id nor the registry.
C3_FamilyIdsUniqueAndCounterMonotone ==
    [][/\ max_fam_id' >= max_fam_id
       /\ FamIdsAndNamesUnique(famGetter', fams', max_fam_id')
       /\ \A n \in FamNames :
             Has(famGetter', n) =>
                LET r == addGeneFamily(famGetter', fams', max_fam_id', n)
                IN  /\ r.ret = Get(famGetter', n)
                    /\ r.max_fam_id = max_fam_id'
                    /\ r.famGetter = famGetter'
                    /\ r.fams = fams']_vars

\* C3 witness: two families were created, then addGeneFamily was called again
C3_Witness ==
    /\ lastOp.op = "addGeneFamily"
    /\ Len(famGetter) = 2
    /\ max_fam_id = 2
    /\ \E g \in Genes : geneFamily[g] # 0

\* the Edge objects registered in the Pangenome whose endpoints are the families of key
RegisteredFor(eg, es, key) ==
    {k \in DOMAIN eg : {es[eg[k]].source, es[eg[k]].target} = key}

\* C4: for two genes of one organism that both have a family and whose family
\* pair has no edge yet, addEdge(g1, g2) then addEdge(g2, g1) both succeed and
\* return the same Edge object, which is the only one registered for the pair
\* and holds exactly two gene pairs.
C4_SwappedAddEdgeSharesOneEdge ==
    \A g1 \in Genes, g2 \in Genes :
        LET key == {geneFamily[g1], geneFamily[g2]} IN
        (/\ geneFamily[g1] # 0 /\ geneFamily[g2] # 0
         /\ g1.organism = g2.organism
         /\ RegisteredFor(edgeGetter, edgeObjs, key) = {}) =>
            LET r1 == addEdge(fams, edgeObjs, edgeGetter, geneFamily, g1, g2)
                r2 == addEdge(r1.fams, r1.edgeObjs, r1.edgeGetter, geneFamily, g2, g1)
            IN  /\ r1.err = "" /\ r2.err = ""
                /\ r1.ret # 0
                /\ r2.ret = r1.ret
                /\ Cardinality(RegisteredFor(r2.edgeGetter, r2.edgeObjs, key)) = 1
                /\ \A k \in RegisteredFor(r2.edgeGetter, r2.edgeObjs, key) :
                      r2.edgeGetter[k] = r1.ret
                /\ NbPairs(r2.edgeObjs[r1.ret]) = 2

\* C4 witness: an edge between two different families was made by
\* addEdge(g1, g2) and extended by addEdge(g2, g1)
C4_Witness ==
    /\ lastOp = [op |-> "addEdge", err |-> ""]
    /\ \E k \in DOMAIN edgeGetter, g1 \in Genes, g2 \in Genes :
          LET e == edgeObjs[edgeGetter[k]] IN
          /\ g1 # g2
          /\ e.source # e.target
          /\ Len(e.organisms) = 1
          /\ e.organisms[1].v = << <<g1, g2>>, <<g2, g1>> >>

\* Edge(g1, g2) fails and records no gene pair
EdgeInitFails(g1, g2) ==
    LET r == EdgeInit(fams, edgeObjs, geneFamily, g1, g2) IN
    /\ r.err # ""
    /\ TotalPairs(r.edgeObjs, 1) = TotalPairs(edgeObjs, 1)

\* Pangenome.addEdge(g1, g2) fails and records no gene pair
AddEdgeFails(g1, g2) ==
    LET r == addEdge(fams, edgeObjs, edgeGetter, geneFamily, g1, g2) IN
    /\ r.err # ""
    /\ TotalPairs(r.edgeObjs, 1) = TotalPairs(edgeObjs, 1)
    /\ r.edgeGetter = edgeGetter

\* addGenes(g1, g2) fails on every existing Edge and records no gene pair
EdgeAddGenesFails(g1, g2) ==
    \A e \in 1..Len(edgeObjs) :
        LET r == EdgeAddGenes(edgeObjs[e], g1, g2) IN
        /\ r.err # ""
        /\ r.edge = edgeObjs[e]

\* C5 as claimed: Edge construction, Edge.addGenes and Pangenome.addEdge all
\* fail, recording no gene pair, when the two genes are of different organisms
\* and when either gene has no family.
C5_EveryAttemptFails ==
    \A g1 \in Genes, g2 \in Genes :
        (g1.organism # g2.organism \/ geneFamily[g1] = 0 \/ geneFamily[g2] = 0) =>
            /\ EdgeInitFails(g1, g2)
            /\ AddEdgeFails(g1, g2)
            /\ EdgeAddGenesFails(g1, g2)

\* C5 amended: Edge construction, Edge.addGenes and Pangenome.addEdge all fail,
\* recording no gene pair, when the two genes are of different organisms; Edge
\* construction and Pangenome.addEdge fail, recording no gene pair, when either
\* gene has no family (Edge.addGenes does not look at the families).
C5_FailsOnOrganismsAndConstructionOnFamilies ==
    \A g1 \in Genes, g2 \in Genes :
        /\ g1.organism # g2.organism =>
              /\ EdgeInitFails(g1, g2)
              /\ AddEdgeFails(g1, g2)
              /\ EdgeAddGenesFails(g1, g2)
        /\ (geneFamily[g1] = 0 \/ geneFamily[g2] = 0) =>
              /\ EdgeInitFails(g1, g2)
              /\ AddEdgeFails(g1, g2)

\* C5 witness: an Edge is registered, a construction failed on the organisms
\* (its object holds no pair), a gene still has no family, and the last
\* addEdge failed
C5_Witness ==
    /\ lastOp = [op |-> "addEdge", err |-> "Exception"]
    /\ DOMAIN edgeGetter # {}
    /\ \E e \in 1..Len(edgeObjs) : NbPairs(edgeObjs[e]) = 0
    /\ \E g \in Genes : geneFamily[g] = 0

\* C6: every Edge registered in the Pangenome is the entry of its source's
\* adjacency map for its target and of its target's adjacency map for its source.
C6_RegisteredEdgesAreSymmetric ==
    \A k \in DOMAIN edgeGetter :
        LET e == edgeGetter[k]
            source == edgeObjs[e].source
            target == edgeObjs[e].target
        IN  /\ target \in DOMAIN fams[source].edges
            /\ fams[source].edges[target] = e
            /\ source \in DOMAIN fams[target].edges
            /\ fams[target].edges[source] = e

\* C6 witness: an addEdge between two families failed on the organisms (its
\* Edge object stayed on the families), then an edge for the same two
\* families was created and registered, then another addEdge failed
C6_Witness ==
    /\ lastOp = [op |-> "addEdge", err |-> "Exception"]
    /\ Len(edgeObjs) = 2
    /\ NbPairs(edgeObjs[1]) = 0
    /\ edgeObjs[1].source # edgeObjs[1].target
    /\ \E k \in DOMAIN edgeGetter :
          /\ edgeGetter[k] = 2
          /\ k = {edgeObjs[1].source, edgeObjs[1].target}

IndexIsBijection(idx, og) ==
    /\ Keys(idx) = Values(og)
    /\ Cardinality(Keys(idx)) = Len(og)
    /\ Len(idx) = Len(og)
    /\ Values(idx) = 0..(Len(og) - 1)

\* C9: the step that builds the organism index makes it a bijection from the
\* N organisms registered at that moment onto 0..N-1.
C9_FirstIndexIsBijection ==
    [][(~hasOrgIndex /\ hasOrgIndex') => IndexIsBijection(orgIndex', orgGetter)]_vars

\* C9 witness: getIndex has built the index of two registered organisms
C9_Witness ==
    /\ lastOp.op = "getIndex"
    /\ hasOrgIndex
    /\ Len(orgIndex) = 2
    /\ Len(orgGetter) = 2

\* C10: once the organism index exists no operation changes it, and getIndex
\* returns it as it is, whatever was registered since.
C10_IndexIsFrozen ==
    [][hasOrgIndex =>
          /\ hasOrgIndex'
          /\ orgIndex' = orgIndex
          /\ getIndex(hasOrgIndex', orgIndex', orgGetter').orgIndex = orgIndex]_vars

\* C10 witness: getIndex is called again after a family, a gene, an edge and
\* an organism that is not in the index were added
C10_Witness ==
    /\ lastOp.op = "getIndex"
    /\ hasOrgIndex
    /\ Len(orgIndex) = 1
    /\ \E i \in 1..Len(orgGetter) : orgGetter[i].v \notin Keys(orgIndex)
    /\ Len(famGetter) = 1
    /\ Len(edgeObjs) >= 1
    /\ fams[1].bitarray # NoBitarray

\* the family holds a gene of organism org
HasGeneIn(fam, org) ==
    \E i \in 1..Len(fam.genes_getter) : fam.genes_getter[i].v.organism = org

\* the family matches the partition filter of mk_bitarray
MatchesFilter(fam, partition) ==
    \/ partition = "all"
    \/ partition \in {"shell", "cloud"} /\ named_partition(fam).ret = partition
    \/ partition = "accessory" /\ named_partition(fam).ret \in {"shell", "cloud"}

\* C7: after mk_bitarray(index, filter) on a family, whatever add and remove
\* calls came before, the bit of every organism o of index is 1 exactly when
\* the family holds a gene of o and matches the filter.
C7_BitIffGeneInOrganismAndFilter ==
    \A f \in OneFam, index \in Indexes,
       partition \in {"all", "shell", "cloud", "accessory"} :
        LET r == mk_bitarray(gfams[f], index, partition) IN
        r.err = "" =>
            \A i \in 1..Len(index) :
                TestBit(r.fam.bitarray, index[i].v)
                    <=> (HasGeneIn(r.fam, index[i].k) /\ MatchesFilter(r.fam, partition))

\* C8: for a family that holds a gene of an organism that is no key of index
\* (every gene having an organism, and the partition being set when the filter
\* reads it), mk_bitarray completes and sets bits of indexed organisms only.
C8_NonIndexedOrganismIsIgnored ==
    \A f \in OneFam, index \in Indexes,
       partition \in {"all", "shell", "cloud", "accessory"} :
        LET fam == gfams[f]
            r == mk_bitarray(fam, index, partition)
        IN  (/\ \E i \in 1..Len(fam.genes_getter) :
                    fam.genes_getter[i].v.organism \notin Keys(index)
             /\ ~HasGeneIn(fam, NoneOrg)
             /\ (partition = "all" \/ fam.partition # <<>>)) =>
                /\ r.err = ""
                /\ \A b \in 0..2 : TestBit(r.fam.bitarray, b) => b \in Values(index)

\* C11: once computeFamilyBitarrays has been called (the organism index then
\* exists), a later call raises nothing and leaves every family, its bitarray
\* included, and the index as they are, whatever was added in between; and no
\* step of computeFamilyBitarrays taken with the index present changes a family.
C11_ComputeFamilyBitarraysNeverRecomputes ==
    [][/\ hasOrgIndex /\ lastOp'.op = "computeFamilyBitarrays" => fams' = fams
       /\ hasOrgIndex' =>
            LET r == computeFamilyBitarrays(hasOrgIndex', orgIndex', orgGetter',
                                            fams', famGetter')
            IN  /\ r.fams = fams'
                /\ r.orgIndex = orgIndex'
                /\ r.err = ""]_vars

\* C11 witness: computeFamilyBitarrays was called again after an organism and
\* a gene of it were added: the family keeps a bitarray without that gene's bit
C11_Witness ==
    /\ lastOp.op = "computeFamilyBitarrays"
    /\ hasOrgIndex
    /\ Len(orgIndex) = 1
    /\ Len(fams) = 1
    /\ fams[1].bitarray = 1
    /\ \E g \in fams[1].genes :
          /\ g.organism \notin Keys(orgIndex)
          /\ \E i \in 1..Len(orgGetter) : orgGetter[i].v = g.organism

\* the family of the i-th gene of a region
FamilyOfGene(region, i) == contig.genes[region.genes[i] + 1]

\* C12: two Region objects are equal exactly when they hold as many genes and
\* the families of their genes agree position by position, read in the same
\* direction or in opposite directions; the relation is reflexive and
\* symmetric, and regions whose sets of families differ are not equal.
C12_RegionEqIsMatchUpToReversal ==
    \A h1, h2 \in 1..Len(regions) :
        LET r1 == regions[h1]
            r2 == regions[h2]
            len == Len(r1.genes)
        IN  /\ RegionEq(contig, r1, r2)
                 <=> /\ Len(r2.genes) = len
                     /\ \/ \A i \in 1..len : FamilyOfGene(r1, i) = FamilyOfGene(r2, i)
                        \/ \A i \in 1..len :
                              FamilyOfGene(r1, i) = FamilyOfGene(r2, len + 1 - i)
            /\ RegionEq(contig, r1, r1)
            /\ RegionEq(contig, r1, r2) <=> RegionEq(contig, r2, r1)
            /\ {FamilyOfGene(r1, i) : i \in 1..len}
                 # {FamilyOfGene(r2, i) : i \in 1..Len(r2.genes)}
                    => ~RegionEq(contig, r1, r2)

\* C12 witness: two regions of three genes are equal only through the reversal
C12_Witness ==
    /\ Len(regions) = 2
    /\ Len(regions[1].genes) = 3
    /\ RegionEq(contig, regions[1], regions[2])
    /\ RegionFamilies(contig, regions[1]) # RegionFamilies(contig, regions[2])

\* the region holds the gene at position p of the contig
Occupies(region, p) == \E i \in 1..Len(region.genes) : region.genes[i] = p

\* C13: for every region that holds a gene, isContigBorder is true exactly
\* when the contig is not circular and a gene of the region is at position 0
\* or at the last position of the contig, in whichever order the genes were
\* appended.
C13_ContigBorderIffTouchesAnEnd ==
    \A h \in 1..Len(regions) :
        Len(regions[h].genes) > 0 =>
            LET r == isContigBorder(contig, regions[h]) IN
            /\ r.err = ""
            /\ r.ret <=> /\ ~contig.is_circular
                         /\ \/ Occupies(regions[h], 0)
                            \/ Occupies(regions[h], Len(contig.genes) - 1)

\* the genes of the region were appended in contig order
InContigOrder(region) ==
    \A i \in 1..Len(region.genes) - 1 : region.genes[i + 1] = region.genes[i] + 1

\* family is the family of a gene of the contig that the region does not hold
FamilyOutside(region, family) ==
    \E p \in 0..Len(contig.genes) - 1 :
        ~Occupies(region, p) /\ contig.genes[p + 1] = family

\* C14: for a region whose genes were appended in contig order, every family
\* that getBorderingGenes returns, in either list, is the family of a gene at a
\* position of the contig that no gene of the region occupies.
C14_BorderFamiliesAreOutsideTheRegion ==
    (/\ walk.pc = "done"
     /\ R_lastOp.op = "getBorderingGenes"
     /\ InContigOrder(regions[walk.region])) =>
        \A side \in 1..2 : \A i \in 1..Len(walk.border[side]) :
            FamilyOutside(regions[walk.region], walk.border[side][i])

\* family is accepted by both walks: not multigenic, and persistent
Eligible(family, multigenics) ==
    /\ family \notin multigenics
    /\ namedPartition(RPartition[family]).ret = "persistent"

\* C15: on a circular contig the two walks wrap around the end of the contig:
\* a call with n >= 1 on a region that has an eligible family outside it
\* returns two non-empty lists.
C15_CircularContigHasBorders ==
    (/\ walk.pc = "done"
     /\ R_lastOp.op = "getBorderingGenes"
     /\ contig.is_circular
     /\ walk.n >= 1
     /\ \E f \in RFamilies :
           Eligible(f, walk.multigenics) /\ FamilyOutside(regions[walk.region], f))
        => Len(walk.border[1]) > 0 /\ Len(walk.border[2]) > 0

\* the smaller of two numbers
Min(a, b) == IF a <= b THEN a ELSE b

\* C16: every call of getBorderingGenes on a region that holds a gene comes to
\* an end, on linear and on circular contigs, also when the contig has fewer
\* than n genes; and each list it returns holds at most min(n, G - 1)
\* families, G being the number of genes of the contig.
C16_BorderSearchTerminatesWithinContig ==
    /\ [](walk.pc = "done" =>
            \A side \in 1..2 :
                Len(walk.border[side]) <= Min(walk.n, Len(contig.genes) - 1))
    /\ (walk.pc \in {"left", "right"}) ~> (walk.pc \in {"done", "raised"})

\* C16 witness: a call with n not below the number of genes of the contig has
\* returned, its left list holding the families of all the other genes
C16_Witness ==
    /\ walk.pc = "done"
    /\ Len(contig.genes) >= 2
    /\ walk.n >= Len(contig.genes)
    /\ Len(walk.border[1]) = Len(contig.genes) - 1

\* C17: addRegions given one Region object that holds genes raises nothing
\* and leaves the set of regions as addRegions given a one-element list of
\* that region leaves it, the region being in it.
C17_AddRegionsTakesOneRegion ==
    \A h \in 1..Len(regions) :
      Len(regions[h].genes) > 0 =>
        LET one == addRegionsSingle(panRegions, h)
            lst == addRegionsIterable(panRegions, <<h>>)
        IN  /\ one.err = ""
            /\ one.regions = lst.regions
            /\ h \in one.regions

\* C18: addRegions of a region with genes that duplicates a registered one,
\* being that object or another object equal to it, raises nothing and leaves
\* the number of registered regions as it was.
C18_AddRegionsAbsorbsDuplicates ==
    \A h \in 1..Len(regions) :
        (/\ Len(regions[h].genes) > 0
         /\ \E o \in panRegions :
               h = o \/ RegionEq(contig, regions[h], regions[o])) =>
            LET r == addRegionsIterable(panRegions, <<h>>) IN
            /\ r.err = ""
            /\ Cardinality(r.regions) = Cardinality(panRegions)

\* C19: GeneFamily.add of a gene whose ID the family already holds raises
\* KeyError and changes nothing: the gene stored under that ID, the
\* per-organism cache and the family of the rejected gene stay as they were;
\* and no step of add that raises changes a family or a gene.
C19_FailedAddChangesNothing ==
    [][/\ F_lastOp'.op = "add" /\ F_lastOp'.err # ""
            => gfams' = gfams /\ G_family' = G_family
       /\ \A f \in OneFam, g \in GGenes :
            Has(gfams'[f].genes_getter, g.ID) =>
                LET r == add(gfams', G_family', f, g) IN
                /\ r.err = "KeyError"
                /\ Get(r.gfams[f].genes_getter, g.ID) = Get(gfams'[f].genes_getter, g.ID)
                /\ r.gfams[f].genes_getter = gfams'[f].genes_getter
                /\ r.gfams[f].genePerOrg = gfams'[f].genePerOrg
                /\ r.G_family[g] = G_family'[g]]_vars

\* C19 witness: add of another gene object with a stored ID has just failed;
\* the stored gene is kept and the rejected gene has no family
C19_Witness ==
    /\ F_lastOp = [op |-> "add", err |-> "KeyError"]
    /\ \E g \in GGenes, f \in OneFam :
          /\ Has(gfams[f].genes_getter, g.ID)
          /\ Get(gfams[f].genes_getter, g.ID) # g
          /\ G_family[g] = 0
          /\ Len(gfams[f].genePerOrg) > 0

\* the name that the first character of a partition string stands for
NameOfFirst(c) ==
    CASE c = "P" -> "persistent"
      [] c = "C" -> "cloud"
      [] c = "S" -> "shell"
      [] OTHER -> "undefined"

\* C20: named_partition (and namedPartition of pangenome.py) depends on the
\* partition string only: it raises when the string is empty, and otherwise
\* returns persistent, cloud or shell for a first character P, C or S and
\* undefined for any other; reading it changes neither a family nor a gene.
C20_NamedPartitionIsPureFunctionOfPartition ==
    [][/\ F_lastOp'.op = "named_partition" => gfams' = gfams /\ G_family' = G_family
       /\ \A f \in OneFam :
            LET p == gfams'[f].partition
                new == named_partition(gfams'[f])
                old == namedPartition(p)
            IN  /\ p = <<>> => new.err = "ValueError" /\ old.err = "Exception"
                /\ p # <<>> => /\ new = [ret |-> NameOfFirst(p[1]), err |-> ""]
                               /\ old = [ret |-> NameOfFirst(p[1]), err |-> ""]]_vars

\* C20 witness: named_partition was read on a family that holds a gene and
\* whose partition string is longer than its first character S
C20_Witness ==
    /\ F_lastOp = [op |-> "named_partition", err |-> ""]
    /\ \E f \in OneFam :
          /\ gfams[f].partition = <<"S", "1">>
          /\ Len(gfams[f].genes_getter) > 0

\* C21: after any add and remove calls, number_of_genes of a family that holds
\* genes raises nothing and returns the number of genes stored in the family,
\* which is len(family).
C21_NumberOfGenesIsLen ==
    \A f \in OneFam :
        Len(gfams[f].genes_getter) > 0 =>
            LET r == number_of_genes(gfams[f]) IN
            /\ r.err = ""
            /\ r.ret = FamilyLen(gfams[f])

\* C22: a gene has one family, the one it was added to last: F1.add(g) then
\* F2.add(g) on two families that do not hold g's ID both succeed, g.family
\* is then F2, and F1 still returns g for its ID and counts it among its
\* genes; likewise for addGene of pangenome.py.
C22_ReassignedGeneStaysInOldFamily ==
    /\ \A g \in MovedGenes : \A f1, f2 \in GFams :
          (/\ f1 # f2
           /\ ~Has(gfams[f1].genes_getter, g.ID)
           /\ ~Has(gfams[f2].genes_getter, g.ID)) =>
              LET r1 == add(gfams, G_family, f1, g)
                  r2 == add(r1.gfams, r1.G_family, f2, g)
              IN  /\ r1.err = "" /\ r2.err = ""
                  /\ r1.G_family[g] = f1
                  /\ r2.G_family[g] = f2
                  /\ Has(r2.gfams[f1].genes_getter, g.ID)
                  /\ Get(r2.gfams[f1].genes_getter, g.ID) = g
                  /\ FamilyLen(r2.gfams[f1]) = FamilyLen(gfams[f1]) + 1
    /\ \A g \in PanGenes : \A h1, h2 \in 1..Len(fams) :
          h1 # h2 =>
              LET r1 == addGene(fams, geneFamily, h1, g)
                  r2 == addGene(r1.fams, r1.geneFamily, h2, g)
              IN  /\ r2.geneFamily[g] = h2
                  /\ g \in r2.fams[h1].genes
                  /\ g \in r2.fams[h2].genes

\* C22 witness: a gene was added to family 1, then to family 2: its family is
\* 2 and family 1 still holds it
C22_Witness ==
    /\ F_lastOp = [op |-> "add", err |-> ""]
    /\ \E g \in MovedGenes :
          /\ G_family[g] = 2
          /\ Has(gfams[1].genes_getter, g.ID)
          /\ Get(gfams[1].genes_getter, g.ID) = g
          /\ Has(gfams[2].genes_getter, g.ID)
    /\ \E g \in PanGenes :
          /\ Len(fams) = 2
          /\ geneFamily[g] = 2
          /\ g \in fams[1].genes

\* C23: each list that getBorderingGenes returns holds at most n families and
\* none that is in multigenics; every family of the first (left) list has the
\* named partition persistent; the second (right) list has no partition
\* filter: when the gene next to the region's first gene on the right is of a
\* family that is not multigenic, a call with n >= 1 on a linear contig
\* returns that family first in it, persistent or not.
C23_BorderAcceptanceFilter ==
    walk.pc = "done" =>
        LET region == regions[walk.region]
            next == region.genes[1] + 1
        IN  /\ \A side \in 1..2 :
                  /\ Len(walk.border[side]) <= walk.n
                  /\ \A i \in 1..Len(walk.border[side]) :
                        walk.border[side][i] \notin walk.multigenics
            /\ \A i \in 1..Len(walk.border[1]) :
                  namedPartition(RPartition[walk.border[1][i]]).ret = "persistent"
            /\ (/\ ~contig.is_circular
                /\ walk.n >= 1
                /\ next <= Len(contig.genes) - 1
                /\ contig.genes[next + 1] \notin walk.multigenics)
                  => /\ Len(walk.border[2]) >= 1
                     /\ walk.border[2][1] = contig.genes[next + 1]

\* C23 witness: a call with n = 1 has passed over the multigenic family next
\* to the region on the right and returned the shell family after it
C23_Witness ==
    /\ walk.pc = "done"
    /\ walk.n = 1
    /\ walk.multigenics = {1}
    /\ Len(regions[walk.region].genes) = 1
    /\ regions[walk.region].genes[1] + 3 <= Len(contig.genes)
    /\ contig.genes[regions[walk.region].genes[1] + 2] = 1
    /\ walk.border[2] = <<2>>

\* C24: a call of check_pangenome_to_write_sequences that requests an output
\* and gives, for every argument it gives, a value that is none of the
\* possible ones (all, persistent, shell, cloud, rgp, softcore, core,
\* module_<id>) raises ValueError.
C24_UnknownFilterRaisesValueError ==
    LET given == {x \in {writeCall.regions, writeCall.genes, writeCall.genes_prot,
                         writeCall.gene_families, writeCall.prot_families} :
                     x # PyNone}
    IN  (/\ writeCall.op = "check_pangenome_to_write_sequences"
         /\ \E x \in given : Truthy(x)
         /\ \A x \in given : ~InPossValues(x))
            => writeCall.err = "ValueError"


\* C25: every Edge object held in a family's adjacency map is the Edge
\* registered in the Pangenome for the pair of its two families.
C25_AdjacentEdgesAreRegistered ==
    \A f \in 1..Len(fams) : \A n \in DOMAIN fams[f].edges :
        LET e == fams[f].edges[n]
            key == {edgeObjs[e].source, edgeObjs[e].target}
        IN  /\ key \in DOMAIN edgeGetter
            /\ edgeGetter[key] = e

\* C26: the source gene of every gene pair recorded on an Edge is of the
\* Edge's source family and its target gene is of the Edge's target family.
C26_GenePairsAreOrientedLikeTheEdge ==
    \A e \in 1..Len(edgeObjs) : \A i \in 1..Len(edgeObjs[e].organisms) :
        LET pairs == edgeObjs[e].organisms[i].v IN
        \A j \in 1..Len(pairs) :
            /\ geneFamily[pairs[j][1]] = edgeObjs[e].source
            /\ geneFamily[pairs[j][2]] = edgeObjs[e].target


\* C27: when computeFamilyBitarrays has returned, every family registered in
\* the Pangenome has a computed bitarray.
C27_EveryFamilyHasBitarrayAfterCompute ==
    lastOp = [op |-> "computeFamilyBitarrays", err |-> ""] =>
        \A i \in 1..Len(famGetter) : fams[famGetter[i].v].bitarray # NoBitarray

\* C28: a call of getGenesPerOrg leaves the organisms of every family as they
\* are, and a bitarray made by mkBitarray afterwards has no bit for an
\* organism the family has no gene in.
C28_GetGenesPerOrgIsReadOnly ==
    [][lastOp'.op = "getGenesPerOrg" =>
          \A f \in 1..Len(fams) :
              /\ PanFamilyOrganisms(fams'[f]) = PanFamilyOrganisms(fams[f])
              /\ \A org \in PanOrgs :
                    LET b == mkBitarray(fams'[f], orgIndex') IN
                    (/\ \A g \in fams'[f].genes : g.organism # org
                     /\ hasOrgIndex'
                     /\ Has(orgIndex', org)
                     /\ b.err = "")
                        => ~TestBit(b.fam.bitarray, Get(orgIndex', org))]_vars


\* C29: the organisms reported by get_org_dict are exactly the organisms of
\* the genes the family currently holds (a gene without organism has none),
\* and the gene set reported for each organism is exactly the set of the genes
\* of that organism it holds.
C29_OrgCacheMatchesGenes ==
    \A f \in OneFam :
        LET r == get_org_dict(gfams[f])
            current == Values(gfams[f].genes_getter)
        IN  r.err = "" =>
                /\ Keys(r.fam.genePerOrg) = {g.organism : g \in current} \ {NoneOrg}
                /\ \A i \in 1..Len(r.fam.genePerOrg) :
                       r.fam.genePerOrg[i].v =
                           {g \in current : g.organism = r.fam.genePerOrg[i].k}


\* C30: after a call of addRegions given an iterable the set of regions of the
\* Pangenome holds Region objects only, and a call that raises adds nothing.
C30_RegionSetHoldsRegionsOnly ==
    [][R_lastOp'.op = "addRegionsIterable" =>
          /\ panRegions' \subseteq RegionHandles
          /\ R_lastOp'.err # "" => panRegions' = panRegions]_vars

====
